---------------------------- MODULE Spec2Model ----------------------------
(***************************************************************************)
(* A model of yahoo_historical/fetch.py: the Fetcher client (constructor,  *)
(* create_url, _get and its three public wrappers) and conv_df, the        *)
(* conversion of a chart response into a table.                            *)
(*                                                                         *)
(* Python values are modelled as follows.                                  *)
(*   str     a sequence of one-character strings (so that upper() and      *)
(*           the digits of a number are computed, not assumed); interval   *)
(*           and event names, which the code only compares and copies,     *)
(*           are atomic strings.                                           *)
(*   int     [t |-> "int", v |-> n]                                        *)
(*   float   [t |-> "float", neg, w, d]: the decimal (-)w.d with one       *)
(*           fractional digit d                                            *)
(*   JSON    tagged values: Obj(record), Arr(sequence), Null               *)
(*   an omitted keyword argument is <<>>, a supplied one is <<value>>      *)
(*   a call's outcome is Return(value) or Raise(exception, line)           *)
(***************************************************************************)
EXTENDS Integers, Sequences, FiniteSets, TLC

VARIABLES
    clock,       \* the wall clock, in tenths of a second (time.time())
    defaultEnd,  \* the default of __init__'s end, evaluated when the def runs
    fetchers,    \* the Fetcher instances: id -> NoFetcher or an instance
    pc,          \* where the caller is: "idle", or inside _get at "L91"
    call,        \* the _get call in progress or last made
    gets,        \* the requests.get invocations of that call
    ret          \* what the last public call returned or raised

vars == <<clock, defaultEnd, fetchers, pc, call, gets, ret>>

----------------------------------------------------------------------------
(* Bounds of the model *)

MaxClock == 30        \* the clock stops advancing here (tenths of a second)
MaxLen == 2           \* the longest timestamp array of a response

LoadTimes == {12, 17}     \* clock readings at which the module is loaded
TickSteps == {5}          \* how far one Tick advances the clock
Ids == {1, 2}             \* instance slots
MainIds == {1}            \* the slot the single-client specifications use

----------------------------------------------------------------------------
(* Python numbers *)

PyInt(n) == [t |-> "int", v |-> n]

PyFloat(neg, w, d) == [t |-> "float", neg |-> neg, w |-> w, d |-> d]

\* time.time() when the clock reads c tenths: a float
Now(c) == PyFloat(FALSE, c \div 10, c % 10)

\* the value of a number, in tenths
Tenths(x) ==
    IF x.t = "int" THEN 10 * x.v
    ELSE IF x.neg THEN -(10 * x.w + x.d) ELSE 10 * x.w + x.d

\* a variant of int() that rounds to the nearest integer
IntRound(x) ==
    IF x.t = "int" THEN x
    ELSE LET m == IF x.d >= 5 THEN x.w + 1 ELSE x.w
         IN  PyInt(IF x.neg THEN -m ELSE m)

\* a variant of int() that rounds towards minus infinity
IntFloor(x) ==
    IF x.t = "int" THEN x
    ELSE IF x.neg /\ x.d > 0 THEN PyInt(-(x.w + 1))
    ELSE PyInt(IF x.neg THEN -x.w ELSE x.w)

\* a variant of int() that keeps the number as given
IntKeep(x) == x

\* int(x): an int is kept, a float loses its fractional part (towards zero)
int(x) ==
    IF x.t = "int" THEN x
    ELSE PyInt(IF x.neg THEN -x.w ELSE x.w)

----------------------------------------------------------------------------
(* Python strings *)

DigitChar == <<"0", "1", "2", "3", "4", "5", "6", "7", "8", "9">>

RECURSIVE NatDigits(_)
NatDigits(n) ==
    IF n < 10 THEN <<DigitChar[n + 1]>>
    ELSE NatDigits(n \div 10) \o <<DigitChar[(n % 10) + 1]>>

\* "%s" % x for a number: an int prints its digits, a float its repr
FormatNumber(x) ==
    IF x.t = "int"
    THEN IF x.v < 0 THEN <<"-">> \o NatDigits(-x.v) ELSE NatDigits(x.v)
    ELSE (IF x.neg THEN <<"-">> ELSE <<>>)
         \o NatDigits(x.w) \o <<".">> \o NatDigits(x.d)

\* the characters str.upper() changes, among those the model's tickers use
UpperChar(c) ==
    CASE c = "a" -> "A"
      [] c = "b" -> "B"
      [] c = "c" -> "C"
      [] OTHER -> c

\* a variant of upper() that keeps the casing supplied
UpperKeep(s) == s

\* str.upper()
Upper(s) == [i \in 1..Len(s) |-> UpperChar(s[i])]

----------------------------------------------------------------------------
(* Outcomes *)

Return(v) == [kind |-> "return", value |-> v]

Raise(exc, line) == [kind |-> "raise", exc |-> exc, line |-> line]

NoValue == [kind |-> "none"]

Raised(r) == r.kind = "raise"

----------------------------------------------------------------------------
(* JSON documents and the subscripts conv_df applies to them *)

Obj(r) == [t |-> "obj", v |-> r]

Arr(s) == [t |-> "arr", v |-> s]

Null == [t |-> "null"]

\* r[k] for a string key k, at source line `line`; an earlier raise propagates
Key(r, k, line) ==
    IF Raised(r) THEN r
    ELSE IF r.value.t = "obj"
         THEN IF k \in DOMAIN r.value.v THEN Return(r.value.v[k])
              ELSE Raise("KeyError", line)
         ELSE Raise("TypeError", line)

\* r[0], at source line `line`
Item0(r, line) ==
    IF Raised(r) THEN r
    ELSE CASE r.value.t = "arr" ->
                 IF Len(r.value.v) > 0 THEN Return(r.value.v[1])
                 ELSE Raise("IndexError", line)
           [] r.value.t = "obj" -> Raise("KeyError", line)
           [] OTHER -> Raise("TypeError", line)

\* indicators.get(k, []): the list under k, the empty list when k is absent
GetOrEmpty(ind, k) == IF k \in DOMAIN ind.v THEN ind.v[k].v ELSE <<>>

\* resp.json(): the decoded body, or a decode error
Json(resp) ==
    IF Len(resp.body) = 0 THEN Raise("JSONDecodeError", 11)
    ELSE Return(resp.body[1])

----------------------------------------------------------------------------
(* Calendar dates: pd.to_datetime(unit='s') followed by strftime('%Y-%m-%d') *)

\* the civil date (UTC) of a count of days since 1970-01-01
CivilFromDays(days) ==
    LET z   == days + 719468
        era == z \div 146097
        doe == z - era * 146097
        yoe == (doe - doe \div 1460 + doe \div 36524 - doe \div 146096) \div 365
        doy == doe - (365 * yoe + yoe \div 4 - yoe \div 100)
        mp  == (5 * doy + 2) \div 153
        d   == doy - (153 * mp + 2) \div 5 + 1
        m   == IF mp < 10 THEN mp + 3 ELSE mp - 9
        y   == yoe + era * 400 + (IF m <= 2 THEN 1 ELSE 0)
    IN  [y |-> y, m |-> m, d |-> d]

\* n in decimal, zero-padded on the left to `width` characters
RECURSIVE Pad(_, _)
Pad(n, width) ==
    IF width <= 1 THEN NatDigits(n)
    ELSE IF Len(NatDigits(n)) >= width THEN NatDigits(n)
    ELSE <<"0">> \o Pad(n, width - 1)

\* the YYYY-MM-DD string of a UNIX timestamp (seconds)
DateStr(ts) ==
    LET c == CivilFromDays(ts \div 86400)
    IN  Pad(c.y, 4) \o <<"-">> \o Pad(c.m, 2) \o <<"-">> \o Pad(c.d, 2)

----------------------------------------------------------------------------
(* Tables: a pandas DataFrame is its column names, in order, and one list  *)
(* per column                                                              *)

\* pd.DataFrame({names[1]: lists[1], ...}): the lists must be equally long
DataFrame(names, lists) ==
    IF \E i, j \in 1..Len(lists) : Len(lists[i]) # Len(lists[j])
    THEN Raise("ValueError", 25)
    ELSE Return([t |-> "DataFrame",
                 columns |-> names,
                 data |-> [c \in {names[i] : i \in 1..Len(names)} |->
                            lists[CHOOSE i \in 1..Len(names) : names[i] = c]]])

\* df[name] = column: a new column goes last
SetColumn(df, name, column) ==
    [df EXCEPT !.columns = Append(df.columns, name),
               !.data = [c \in DOMAIN df.data \cup {name} |->
                           IF c = name THEN column ELSE df.data[c]]]

\* del df[name]
DelColumn(df, name) ==
    [df EXCEPT !.columns = SelectSeq(df.columns, LAMBDA c : c # name),
               !.data = [c \in DOMAIN df.data \ {name} |-> df.data[c]]]

\* df[cols]: the columns named, in the order named
Select(df, cols) ==
    [df EXCEPT !.columns = cols,
               !.data = [c \in {cols[i] : i \in 1..Len(cols)} |-> df.data[c]]]

\* a variant of the rotation that leaves the columns where they are
RotateKeep(cols) == cols

\* cols[-1:] + cols[:-1]
Rotate(cols) ==
    IF Len(cols) = 0 THEN cols
    ELSE <<cols[Len(cols)]>> \o SubSeq(cols, 1, Len(cols) - 1)

NRows(df) == Len(df.data[df.columns[1]])

\* df.to_json(): column-oriented, {"col": {"0": v0, "1": v1, ...}, ...}
ToJson(df) ==
    [t |-> "str",
     json |-> [i \in 1..Len(df.columns) |->
                 <<df.columns[i],
                   [r \in 1..NRows(df) |->
                      <<NatDigits(r - 1), df.data[df.columns[i]][r]>>]>>]]

----------------------------------------------------------------------------
(* conv_df *)

ColumnsInOrder == <<"timestamp", "Open", "High", "Low", "Close", "Volume">>

\* j['chart']['result'][0]
FirstResult(j, line) == Item0(Key(Key(j, "chart", line), "result", line), line)

\* lines 25-42: the table of the timestamps and the five lists
BuildTable(timestamps, open_, high, low, close, volume) ==
    LET made == DataFrame(ColumnsInOrder,
                          <<timestamps, open_, high, low, close, volume>>)
    IN  IF Raised(made) THEN made
        ELSE LET df0  == made.value
                 \* line 35: the timestamps as datetimes; line 36: their dates
                 df1  == SetColumn(df0, "time", df0.data["timestamp"])
                 df2  == SetColumn(df1, "Date",
                             [i \in 1..Len(df1.data["time"]) |->
                                 DateStr(df1.data["time"][i])])
                 df3  == DelColumn(df2, "time")
                 df4  == DelColumn(df3, "timestamp")
                 cols == Rotate(df4.columns)
             IN  Return(Select(df4, cols))

\* conv_df(resp): the table of a response, or the exception a line raises
conv_df(resp) ==
    LET j          == Json(resp)
        timestamps == Key(FirstResult(j, 14), "timestamp", 14)
        indicators == Item0(Key(Key(FirstResult(j, 15), "indicators", 15),
                                "quote", 15), 15)
    IN  IF Raised(j) THEN j
        ELSE IF Raised(timestamps) THEN timestamps
        ELSE IF Raised(indicators) THEN indicators
        ELSE IF indicators.value.t # "obj" THEN Raise("AttributeError", 18)
        ELSE LET ind == indicators.value
             IN  BuildTable(timestamps.value.v,
                            GetOrEmpty(ind, "open"),
                            GetOrEmpty(ind, "high"),
                            GetOrEmpty(ind, "low"),
                            GetOrEmpty(ind, "close"),
                            GetOrEmpty(ind, "volume"))

----------------------------------------------------------------------------
(* The constants module (constants.py) *)

\* the URL template: the pieces between its five %s conversions
API_URL ==
    <<"https://<host>/<path>/", "%s", "?period1=", "%s", "&period2=", "%s",
      "&interval=", "%s", "&events=", "%s">>

DATE_INTERVALS == {"1d", "1wk", "1mo"}

ONE_DAY_INTERVAL == "1d"

----------------------------------------------------------------------------
(* Fetcher *)

NoFetcher == [live |-> FALSE]

Ops == {"get_historical", "get_dividends", "get_splits"}

Events == {"history", "div", "split"}

\* template % values: each %s is replaced by the next value
RECURSIVE Percent(_, _)
Percent(template, values) ==
    IF Len(template) = 0 THEN <<>>
    ELSE IF Head(template) = "%s"
         THEN Head(values) \o Percent(Tail(template), Tail(values))
         ELSE <<Head(template)>> \o Percent(Tail(template), values)

\* lines 52-58: the attributes __init__ sets; end defaults to defaultEnd,
\* interval to ONE_DAY_INTERVAL
InitSelf(ticker, start, end, interval, dflt) ==
    [ticker   |-> Upper(ticker),
     interval |-> IF interval = <<>> THEN ONE_DAY_INTERVAL ELSE interval[1],
     start    |-> int(start),
     end      |-> int(IF end = <<>> THEN dflt ELSE end[1])]

\* create_url(self, event)
create_url(self, event) ==
    Percent(API_URL, <<self.ticker, FormatNumber(self.start),
                       FormatNumber(self.end), <<self.interval>>, <<event>>>>)

USER_AGENT ==
    "Mozilla/4.0 (compatible; MSIE 6.0; Windows NT 5.2; .NET CLR 1.0.3705;)"

\* requests.get(url, headers={"User-agent": ...}) as the transport sees it
Request(url) == [url |-> url, headers |-> [h \in {"User-agent"} |-> USER_AGENT]]

\* a variant in which every operation asks for the history event
EventOfSame(op) == "history"

\* the event each public operation passes to _get
EventOf(op) ==
    CASE op = "get_historical" -> "history"
      [] op = "get_dividends"  -> "div"
      [] op = "get_splits"     -> "split"

\* a variant of the check that accepts the default interval only
IntervalValidDailyOnly(interval) == interval = ONE_DAY_INTERVAL

\* line 84
IntervalValid(interval) == interval \in DATE_INTERVALS

\* a variant of _get that issues the request before checking the interval
GetStartLate(self, event) ==
    [ret  |-> IF IntervalValid(self.interval) THEN NoValue
              ELSE Raise("ValueError", 85),
     gets |-> <<Request(create_url(self, event))>>,
     pc   |-> IF IntervalValid(self.interval) THEN "L91" ELSE "idle"]

\* _get, lines 84-91: up to the request being issued
GetStart(self, event) ==
    IF ~IntervalValid(self.interval)
    THEN [ret |-> Raise("ValueError", 85), gets |-> <<>>, pc |-> "idle"]
    ELSE [ret  |-> NoValue,
          gets |-> <<Request(create_url(self, event))>>,
          pc   |-> "L91"]

\* a table of the six columns and no rows
EmptyTable ==
    [t |-> "DataFrame",
     columns |-> <<"Date", "Open", "High", "Low", "Close", "Volume">>,
     data |-> [c \in {"Date", "Open", "High", "Low", "Close", "Volume"} |-> <<>>]]

\* a variant of _get that returns an empty table when conv_df raises
GetFinishFallback(delivery, as_dataframe) ==
    IF Raised(delivery) THEN delivery
    ELSE LET dataframe == conv_df(delivery.value)
         IN  IF Raised(dataframe) THEN Return(EmptyTable)
             ELSE IF as_dataframe THEN dataframe
             ELSE Return(ToJson(dataframe.value))

\* _get, lines 91-97: requests.get returns or raises, then conv_df and return
GetFinish(delivery, as_dataframe) ==
    IF Raised(delivery) THEN delivery
    ELSE LET dataframe == conv_df(delivery.value)
         IN  IF Raised(dataframe) THEN dataframe
             ELSE IF as_dataframe THEN dataframe
             ELSE Return(ToJson(dataframe.value))

----------------------------------------------------------------------------
(* What the transport can deliver *)

IndicatorKeys == {"open", "high", "low", "close", "volume"}

Level == [open |-> 130, high |-> 133, low |-> 129, close |-> 132, volume |-> 1000]

\* the list a response carries under an indicator key: n values, all
\* different from those of any other key or position
Series(k, n) == [i \in 1..n |-> Level[k] + 10 * i]

\* a quote object: lens maps each key present to the length of its list
Quote(lens) == Obj([k \in DOMAIN lens |-> Arr(Series(k, lens[k]))])

Chart(ts, quote) ==
    Obj([chart |-> Obj([result |-> Arr(<<Obj([timestamp |-> Arr(ts),
                                              indicators |->
                                                  Obj([quote |-> Arr(<<quote>>)])])>>),
                        error |-> Null])])

\* a chronological series of timestamps the responses draw from:
\* 1969-12-31, 1970-01-01 (twice), 2000-02-29, 2021-01-01, 2024-02-29
TsList == <<-1, 0, 86399, 951782400, 1609459200, 1709251199>>

TsSlices ==
    {SubSeq(TsList, q[1], q[1] + q[2] - 1) :
        q \in {r \in (1..Len(TsList)) \X (0..MaxLen) :
                  r[1] + r[2] - 1 <= Len(TsList) /\ (r[2] = 0 => r[1] = 1)}}

Full(n) == [k \in IndicatorKeys |-> n]

Body(status, doc) == [status |-> status, body |-> <<doc>>]

\* documents on which one of conv_df's subscripts fails
BrokenDocs ==
    {Obj([finance |-> Null]),
     Obj([chart |-> Obj([result |-> Null, error |-> Obj([code |-> Null])])]),
     Obj([chart |-> Obj([result |-> Arr(<<>>), error |-> Null])]),
     Obj([chart |-> Obj([result |-> Arr(<<Obj([indicators |->
             Obj([quote |-> Arr(<<Quote(Full(0))>>)])])>>), error |-> Null])]),
     Obj([chart |-> Obj([result |-> Arr(<<Obj([timestamp |-> Arr(<<0>>)])>>),
                         error |-> Null])]),
     Obj([chart |-> Obj([result |-> Arr(<<Obj([timestamp |-> Arr(<<0>>),
             indicators |-> Obj([quote |-> Arr(<<>>)])])>>), error |-> Null])])}

BrokenResponses ==
    {[status |-> 200, body |-> <<>>]}
    \cup {Body(200, d) : d \in BrokenDocs}
    \cup {Body(404, Obj([chart |-> Obj([result |-> Null,
                                        error |-> Obj([code |-> Null])])]))}

\* the lengths a list may have beside n timestamps: n, or one fewer
LenChoices(n) == {n} \cup (IF n > 0 THEN {n - 1} ELSE {})

RichResponses ==
    BrokenResponses
    \cup {Body(200, Chart(x[1], Quote(x[2]))) :
            x \in UNION {{<<ts, lens>> :
                            lens \in UNION {[S -> LenChoices(Len(ts))] :
                                               S \in SUBSET IndicatorKeys}} :
                         ts \in TsSlices}}

SmallResponses ==
    BrokenResponses
    \cup {Body(200, Chart(<<>>, Quote(Full(0)))),
          Body(200, Chart(<<1609459200>>, Quote(Full(1)))),
          Body(200, Chart(<<1609459200, 1709251199>>, Quote(Full(2)))),
          Body(200, Chart(<<1609459200>>,
                          Quote([k \in IndicatorKeys \ {"volume"} |-> 1])))}

\* requests.get returns a response or raises
Deliveries(responses) ==
    {Raise("ConnectionError", 91)} \cup {Return(r) : r \in responses}

----------------------------------------------------------------------------
(* Arguments the callers pass *)

\* -1.5, 0.7 and 3; 2.9, -0.5 and an omitted end; a valid interval, an
\* invalid one and an omitted one
Tickers == {<<"a", "b">>, <<"c", "1">>}

Starts == {PyInt(3), PyFloat(TRUE, 1, 5), PyFloat(FALSE, 0, 7)}

Ends == {<<>>, <<PyFloat(FALSE, 2, 9)>>, <<PyFloat(TRUE, 0, 5)>>}

Intervals == {<<>>, <<"1wk">>, <<"2d">>}

\* tickers that differ only in letter case, and one that differs otherwise
PairTickers == {<<"a", "b">>, <<"A", "b">>, <<"c", "1">>}

PairStarts == {PyInt(3), PyFloat(TRUE, 1, 5)}

PairEnds == {<<>>, <<PyFloat(FALSE, 2, 9)>>}

PairIntervals == {<<>>, <<"1wk">>}

----------------------------------------------------------------------------
(* The state machine *)

None == [t |-> "None"]

NoCall ==
    [op |-> "none", id |-> 0, event |-> "", as_dataframe |-> TRUE,
     delivery |-> NoValue]

Init ==
    /\ clock \in LoadTimes
    /\ defaultEnd = Now(clock)        \* line 49, evaluated as the def runs
    /\ fetchers = [i \in Ids |-> NoFetcher]
    /\ pc = "idle"
    /\ call = NoCall
    /\ gets = <<>>
    /\ ret = NoValue

\* time passes
Tick ==
    /\ \E d \in TickSteps : clock + d <= MaxClock /\ clock' = clock + d
    /\ UNCHANGED <<defaultEnd, fetchers, pc, call, gets, ret>>

\* Fetcher(ticker, start[, end][, interval]) bound to slot id
Construct(id, ticker, start, end, interval) ==
    /\ pc = "idle"
    /\ fetchers' = [fetchers EXCEPT ![id] =
            [live |-> TRUE,
             self |-> InitSelf(ticker, start, end, interval, defaultEnd),
             args |-> [ticker |-> ticker, start |-> start, end |-> end,
                       interval |-> interval],
             now  |-> IF end = <<>> THEN <<clock>> ELSE <<>>]]
    /\ call' = [NoCall EXCEPT !.op = "__init__", !.id = id]
    /\ gets' = <<>>
    /\ ret' = Return(None)
    /\ UNCHANGED <<clock, defaultEnd, pc>>

\* fetcher.create_url(event)
CreateUrl(id, event) ==
    /\ pc = "idle"
    /\ fetchers[id].live
    /\ call' = [NoCall EXCEPT !.op = "create_url", !.id = id, !.event = event]
    /\ gets' = <<>>
    /\ ret' = Return(create_url(fetchers[id].self, event))
    /\ UNCHANGED <<clock, defaultEnd, fetchers, pc>>

\* fetcher.get_historical / get_dividends / get_splits (as_dataframe), up to
\* the point where requests.get blocks
Get(id, op, as_dataframe) ==
    /\ pc = "idle"
    /\ fetchers[id].live
    /\ LET s == GetStart(fetchers[id].self, EventOf(op))
       IN  /\ pc' = s.pc
           /\ gets' = s.gets
           /\ ret' = s.ret
    /\ call' = [op |-> op, id |-> id, event |-> EventOf(op),
                as_dataframe |-> as_dataframe, delivery |-> NoValue]
    /\ UNCHANGED <<clock, defaultEnd, fetchers>>

\* a variant of _get that keeps its result on the instance
ReceiveAndRemember(delivery) ==
    /\ pc = "L91"
    /\ ret' = GetFinish(delivery, call.as_dataframe)
    /\ call' = [call EXCEPT !.delivery = delivery]
    /\ pc' = "idle"
    /\ fetchers' = [fetchers EXCEPT ![call.id].self =
            [a \in DOMAIN fetchers[call.id].self \cup {"last"} |->
                IF a = "last" THEN ret' ELSE fetchers[call.id].self[a]]]
    /\ UNCHANGED <<clock, defaultEnd, gets>>

\* requests.get returns or raises, and _get runs to its end
Receive(delivery) ==
    /\ pc = "L91"
    /\ ret' = GetFinish(delivery, call.as_dataframe)
    /\ call' = [call EXCEPT !.delivery = delivery]
    /\ pc' = "idle"
    /\ UNCHANGED <<clock, defaultEnd, fetchers, gets>>

\* one client, every operation, the responses of SmallResponses
Next ==
    \/ Tick
    \/ \E id \in MainIds, ticker \in Tickers, start \in Starts, end \in Ends,
          interval \in Intervals : Construct(id, ticker, start, end, interval)
    \/ \E id \in MainIds, event \in Events : CreateUrl(id, event)
    \/ \E id \in MainIds, op \in Ops, as_dataframe \in BOOLEAN :
          Get(id, op, as_dataframe)
    \/ \E delivery \in Deliveries(SmallResponses) : Receive(delivery)

Spec == Init /\ [][Next]_vars

\* two clients side by side: construction and create_url
NextPair ==
    \/ Tick
    \/ \E id \in Ids, ticker \in PairTickers, start \in PairStarts,
          end \in PairEnds, interval \in PairIntervals :
          Construct(id, ticker, start, end, interval)
    \/ \E id \in Ids, event \in Events : CreateUrl(id, event)

SpecPair == Init /\ [][NextPair]_vars

\* conv_df over every shape of response: one client, built as the module
\* loads, fetching
InitConv ==
    /\ clock \in LoadTimes
    /\ defaultEnd = Now(clock)
    /\ fetchers = [i \in Ids |->
          IF i \in MainIds
          THEN [live |-> TRUE,
                self |-> InitSelf(<<"a", "b">>, PyInt(3), <<PyInt(5)>>, <<>>,
                                  defaultEnd),
                args |-> [ticker |-> <<"a", "b">>, start |-> PyInt(3),
                          end |-> <<PyInt(5)>>, interval |-> <<>>],
                now  |-> <<>>]
          ELSE NoFetcher]
    /\ pc = "idle"
    /\ call = [NoCall EXCEPT !.op = "__init__", !.id = 1]
    /\ gets = <<>>
    /\ ret = Return(None)

NextConv ==
    \/ \E id \in MainIds, op \in Ops, as_dataframe \in BOOLEAN :
          Get(id, op, as_dataframe)
    \/ \E delivery \in Deliveries(RichResponses) : Receive(delivery)

SpecConv == InitConv /\ [][NextConv]_vars

----------------------------------------------------------------------------
(* Reading a URL and a response back, for the properties below *)

Digits == {DigitChar[i] : i \in 1..Len(DigitChar)}

\* the characters of url between the pieces `from` and `to`
UrlField(url, from, to) ==
    LET i == CHOOSE k \in 1..Len(url) : url[k] = from
        j == CHOOSE k \in 1..Len(url) : url[k] = to
    IN  SubSeq(url, i + 1, j - 1)

UrlTicker(url) == SubSeq(url, 2, (CHOOSE k \in 1..Len(url) : url[k] = "?period1=") - 1)

Period1(url) == UrlField(url, "?period1=", "&period2=")

Period2(url) == UrlField(url, "&period2=", "&interval=")

\* an optional minus sign and then decimal digits only
IsIntegerText(cs) ==
    /\ Len(cs) > 0
    /\ LET body == IF cs[1] = "-" THEN Tail(cs) ELSE cs
       IN  Len(body) > 0 /\ \A i \in 1..Len(body) : body[i] \in Digits

RECURSIVE ParseNat(_)
ParseNat(cs) ==
    IF Len(cs) = 0 THEN 0
    ELSE 10 * ParseNat(SubSeq(cs, 1, Len(cs) - 1))
         + ((CHOOSE d \in 1..10 : DigitChar[d] = cs[Len(cs)]) - 1)

ParseInt(cs) == IF cs[1] = "-" THEN -ParseNat(Tail(cs)) ELSE ParseNat(cs)

\* v is x with its fractional part dropped: the integer next to x on the
\* side of zero
IsTruncationOf(v, x) ==
    LET t == Tenths(x)
    IN  IF t >= 0 THEN 10 * v <= t /\ t < 10 * (v + 1)
        ELSE 10 * v >= t /\ t > 10 * (v - 1)

\* the call in `call` is a fetch operation on an instance that is still bound
FetchCall == call.op \in Ops

Self == fetchers[call.id].self

Args == fetchers[call.id].args

\* the response of a delivery holds chart.result[0] with a timestamp array
\* and indicators.quote[0]
HasChartPath(resp) ==
    /\ Len(resp.body) = 1
    /\ LET doc == resp.body[1]
       IN  /\ doc.t = "obj" /\ "chart" \in DOMAIN doc.v
           /\ doc.v["chart"].t = "obj" /\ "result" \in DOMAIN doc.v["chart"].v
           /\ LET result == doc.v["chart"].v["result"]
              IN  /\ result.t = "arr" /\ Len(result.v) > 0
                  /\ result.v[1].t = "obj"
                  /\ "timestamp" \in DOMAIN result.v[1].v
                  /\ "indicators" \in DOMAIN result.v[1].v
                  /\ LET ind == result.v[1].v["indicators"]
                     IN  /\ ind.t = "obj" /\ "quote" \in DOMAIN ind.v
                         /\ ind.v["quote"].t = "arr"
                         /\ Len(ind.v["quote"].v) > 0

RespTimestamps(resp) == resp.body[1].v["chart"].v["result"].v[1].v["timestamp"].v

RespQuote(resp) ==
    resp.body[1].v["chart"].v["result"].v[1].v["indicators"].v["quote"].v[1].v

TableColumns == <<"Date", "Open", "High", "Low", "Close", "Volume">>

ColumnKey == [Open |-> "open", High |-> "high", Low |-> "low",
              Close |-> "close", Volume |-> "volume"]

\* the calendar dates of the timestamps of TsList, from the calendar
KnownDate(ts) ==
    CASE ts = -1         -> <<"1", "9", "6", "9", "-", "1", "2", "-", "3", "1">>
      [] ts = 0          -> <<"1", "9", "7", "0", "-", "0", "1", "-", "0", "1">>
      [] ts = 86399      -> <<"1", "9", "7", "0", "-", "0", "1", "-", "0", "1">>
      [] ts = 951782400  -> <<"2", "0", "0", "0", "-", "0", "2", "-", "2", "9">>
      [] ts = 1609459200 -> <<"2", "0", "2", "1", "-", "0", "1", "-", "0", "1">>
      [] ts = 1709251199 -> <<"2", "0", "2", "4", "-", "0", "2", "-", "2", "9">>

----------------------------------------------------------------------------
(* The claims *)

\* C1: a fetch operation on a Fetcher whose interval is not in
\* DATE_INTERVALS ends in the ValueError of the interval check, and
\* requests.get has not been invoked during that call.
C1_InvalidIntervalRaisesBeforeNetwork ==
    (FetchCall /\ Self.interval \notin DATE_INTERVALS)
        => /\ pc = "idle"
           /\ ret = Raise("ValueError", 85)
           /\ gets = <<>>

C1_Witness ==
    /\ FetchCall /\ Self.interval \notin DATE_INTERVALS
    /\ call.op = "get_splits" /\ ~call.as_dataframe
    /\ Raised(ret)

\* C2: for a response with N timestamps and five indicator lists of length
\* N, the table conv_df returns has the columns Date, Open, High, Low,
\* Close, Volume in that order and no other, N rows, and in row i the i-th
\* value of each list and the calendar date of the i-th timestamp.
C2_TableOfFullResponse ==
    (/\ FetchCall /\ pc = "idle" /\ call.as_dataframe
     /\ call.delivery.kind = "return"
     /\ HasChartPath(call.delivery.value)
     /\ DOMAIN RespQuote(call.delivery.value) = IndicatorKeys
     /\ \A k \in IndicatorKeys :
           Len(RespQuote(call.delivery.value)[k].v)
               = Len(RespTimestamps(call.delivery.value)))
        => LET ts == RespTimestamps(call.delivery.value)
               q  == RespQuote(call.delivery.value)
           IN  /\ ret.kind = "return"
               /\ ret.value.t = "DataFrame"
               /\ ret.value.columns = TableColumns
               /\ DOMAIN ret.value.data = {TableColumns[i] : i \in 1..6}
               /\ \A c \in DOMAIN ret.value.data :
                     Len(ret.value.data[c]) = Len(ts)
               /\ \A i \in 1..Len(ts) :
                     /\ ret.value.data["Date"][i] = KnownDate(ts[i])
                     /\ \A c \in DOMAIN ColumnKey :
                           ret.value.data[c][i] = q[ColumnKey[c]].v[i]

C2_Witness ==
    /\ FetchCall /\ pc = "idle" /\ call.as_dataframe
    /\ call.delivery.kind = "return"
    /\ HasChartPath(call.delivery.value)
    /\ RespTimestamps(call.delivery.value) = <<951782400, 1609459200>>
    /\ DOMAIN RespQuote(call.delivery.value) = IndicatorKeys
    /\ \A k \in IndicatorKeys : Len(RespQuote(call.delivery.value)[k].v) = 2
    /\ ret.kind = "return"
    /\ ret.value.data["Date"][2] = KnownDate(1609459200)
    /\ ret.value.data["Open"] = <<140, 150>>

\* C3 (as claimed): for a response with N >= 1 timestamps, one indicator
\* key absent and the other lists of length N, the fetch does not raise and
\* returns a table of N rows.
C3_MissingKeyTolerated ==
    (/\ FetchCall /\ pc = "idle" /\ call.as_dataframe
     /\ call.delivery.kind = "return"
     /\ HasChartPath(call.delivery.value)
     /\ Len(RespTimestamps(call.delivery.value)) >= 1
     /\ Cardinality(IndicatorKeys \ DOMAIN RespQuote(call.delivery.value)) = 1
     /\ \A k \in DOMAIN RespQuote(call.delivery.value) :
           Len(RespQuote(call.delivery.value)[k].v)
               = Len(RespTimestamps(call.delivery.value)))
        => /\ ret.kind = "return"
           /\ \A c \in DOMAIN ret.value.data \ {"Volume"} :
                 Len(ret.value.data[c])
                     = Len(RespTimestamps(call.delivery.value))

\* C4 (as claimed): a Fetcher constructed without end stores the clock at
\* its construction, truncated to whole seconds.
C4_DefaultEndIsNowAtConstruction ==
    \A id \in Ids :
        (fetchers[id].live /\ fetchers[id].args.end = <<>>)
            => fetchers[id].self.end = PyInt(fetchers[id].now[1] \div 10)

\* C5: the stored start and end are ints, each the constructor's argument
\* with its fractional part dropped, and period1 and period2 of every URL
\* create_url returns or a fetch requests are the decimal digits of exactly
\* those ints.
C5_TruncatedTimestamps ==
    /\ \A id \in Ids : fetchers[id].live =>
          /\ fetchers[id].self.start.t = "int"
          /\ fetchers[id].self.end.t = "int"
          /\ IsTruncationOf(fetchers[id].self.start.v, fetchers[id].args.start)
          /\ fetchers[id].args.end # <<>> =>
                IsTruncationOf(fetchers[id].self.end.v, fetchers[id].args.end[1])
    /\ \A url \in (IF call.op = "create_url" THEN {ret.value} ELSE {})
                  \cup {gets[i].url : i \in 1..Len(gets)} :
          /\ IsIntegerText(Period1(url))
          /\ IsIntegerText(Period2(url))
          /\ IsTruncationOf(ParseInt(Period1(url)), Args.start)
          /\ Args.end # <<>> =>
                IsTruncationOf(ParseInt(Period2(url)), Args.end[1])
          /\ ParseInt(Period1(url)) = Self.start.v
          /\ ParseInt(Period2(url)) = Self.end.v

C5_Witness ==
    /\ FetchCall /\ Len(gets) = 1
    /\ Args.start = PyFloat(TRUE, 1, 5)
    /\ Args.end = <<PyFloat(FALSE, 2, 9)>>
    /\ Period1(gets[1].url) = <<"-", "1">>
    /\ Period2(gets[1].url) = <<"2">>

\* C6: a fetch operation on a Fetcher whose interval is in DATE_INTERVALS
\* never ends in the ValueError of the interval check, and requests.get is
\* invoked.
C6_ValidIntervalProceeds ==
    (FetchCall /\ Self.interval \in DATE_INTERVALS)
        => /\ ret # Raise("ValueError", 85)
           /\ Len(gets) >= 1

C6_Witness ==
    /\ FetchCall /\ Args.interval = <<"1wk">>
    /\ call.op = "get_dividends"
    /\ pc = "idle" /\ ret.kind = "return"

\* C7: only the constructor changes an instance; every other step leaves
\* every instance as it was, an instance holds the four attributes ticker,
\* interval, start, end and nothing else, and what a fetch returns is
\* determined by the response delivered to it and as_dataframe.
C7_NoStateBeyondTheFields ==
    [][/\ \/ fetchers' = fetchers
          \/ \E id \in Ids :
                \* the step is a call of the constructor, on slot id
                /\ call' = [NoCall EXCEPT !.op = "__init__", !.id = id]
                /\ ret' = Return(None)
                /\ fetchers' = [fetchers EXCEPT ![id] = fetchers'[id]]
                /\ fetchers'[id].live
                /\ fetchers'[id].self =
                      InitSelf(fetchers'[id].args.ticker,
                               fetchers'[id].args.start,
                               fetchers'[id].args.end,
                               fetchers'[id].args.interval, defaultEnd)
       /\ \A id \in Ids : fetchers'[id].live =>
             DOMAIN fetchers'[id].self = {"ticker", "interval", "start", "end"}
       /\ (pc = "L91" /\ pc' = "idle") =>
             ret' = GetFinish(call'.delivery, call.as_dataframe)]_vars

C7_Witness ==
    /\ FetchCall /\ pc = "idle"
    /\ ret.kind = "return" /\ ~call.as_dataframe
    /\ fetchers[call.id].live
    /\ Self = InitSelf(Args.ticker, Args.start, Args.end, Args.interval,
                       defaultEnd)

\* C8: a fetch whose transport raises, whose body is not JSON, or whose
\* document lacks chart.result[0], its timestamp array or
\* indicators.quote[0] ends in an exception (the transport's own, when the
\* transport raised), returns nothing, and has issued a single request.
C8_FailurePropagates ==
    (/\ FetchCall /\ pc = "idle" /\ call.delivery # NoValue
     /\ \/ Raised(call.delivery)
        \/ ~HasChartPath(call.delivery.value))
        => /\ Raised(ret)
           /\ Raised(call.delivery) => ret = call.delivery
           /\ ~Raised(call.delivery) =>
                 ret.exc \in {"JSONDecodeError", "KeyError", "IndexError",
                              "TypeError"}
           /\ Len(gets) = 1

C8_Witness ==
    /\ FetchCall /\ pc = "idle" /\ call.delivery.kind = "return"
    /\ call.delivery.value.status = 404
    /\ ret = Raise("TypeError", 14)

\* C9: create_url returns the same URL for two instances whose tickers
\* differ only in letter case and whose start, end and interval are equal,
\* and for repeated calls on one instance; the ticker in the URL is the
\* upper-case form of the ticker supplied.
C9_UrlDeterminedByUpperTicker ==
    [][(call'.op = "create_url") =>
          LET old == fetchers[call.id].args
              new == fetchers'[call'.id].args
          IN  /\ (/\ call.op = "create_url"
                  /\ call.event = call'.event
                  /\ Len(old.ticker) = Len(new.ticker)
                  /\ \A i \in 1..Len(old.ticker) :
                        \/ old.ticker[i] = new.ticker[i]
                        \/ <<old.ticker[i], new.ticker[i]>> \in
                              {<<"a", "A">>, <<"A", "a">>, <<"b", "B">>,
                               <<"B", "b">>, <<"c", "C">>, <<"C", "c">>}
                  /\ fetchers[call.id].self.start = fetchers'[call'.id].self.start
                  /\ fetchers[call.id].self.end = fetchers'[call'.id].self.end
                  /\ fetchers[call.id].self.interval
                        = fetchers'[call'.id].self.interval)
                 => ret'.value = ret.value
              /\ Len(UrlTicker(ret'.value)) = Len(new.ticker)
              /\ \A i \in 1..Len(new.ticker) :
                    /\ UrlTicker(ret'.value)[i] \notin {"a", "b", "c"}
                    /\ \/ UrlTicker(ret'.value)[i] = new.ticker[i]
                       \/ <<new.ticker[i], UrlTicker(ret'.value)[i]>> \in
                             {<<"a", "A">>, <<"b", "B">>, <<"c", "C">>}]_vars

C9_Witness ==
    /\ call.op = "create_url" /\ call.id = 2
    /\ fetchers[1].live
    /\ fetchers[1].args.ticker = <<"A", "b">>
    /\ fetchers[2].args.ticker = <<"a", "b">>
    /\ fetchers[1].self.start = fetchers[2].self.start
    /\ fetchers[1].self.end = fetchers[2].self.end
    /\ fetchers[1].self.interval = fetchers[2].self.interval
    /\ UrlTicker(ret.value) = <<"A", "B">>
    /\ ret.value = create_url(fetchers[1].self, call.event)

\* C10: a fetch operation on a Fetcher with a valid interval issues exactly
\* one request, with the fixed User-agent header, to the URL of the stored
\* fields and the operation's own event (history, div, split); it is issued
\* before anything is parsed or returned, and no second one follows,
\* whatever the first one's outcome.
C10_OneRequestPerCall ==
    (FetchCall /\ Self.interval \in DATE_INTERVALS)
        => /\ Len(gets) = 1
           /\ gets[1].url =
                 create_url(Self, [get_historical |-> "history",
                                   get_dividends  |-> "div",
                                   get_splits     |-> "split"][call.op])
           /\ DOMAIN gets[1].headers = {"User-agent"}
           /\ gets[1].headers["User-agent"] = USER_AGENT
           /\ pc = "L91" => (ret = NoValue /\ call.delivery = NoValue)

C10_Witness ==
    /\ FetchCall /\ call.op = "get_splits" /\ pc = "idle"
    /\ Raised(call.delivery) /\ ret = call.delivery
    /\ Len(gets) = 1
    /\ gets[1].url[Len(gets[1].url)] = "split"

============================================================================
